---------------------------- MODULE Spec2Model ----------------------------
(***************************************************************************)
(* Model of converter.py (Excel -> JSON converter) and of usoconverter.py. *)
(*                                                                         *)
(* converter.py holds the program twice: lines 8-139 (Spanish messages,    *)
(* ending in a one-line __main__ guard) and lines 147-291 (English         *)
(* messages, ending in a second __main__ guard).  Run as a script, Python  *)
(* executes the file top to bottom: the first guard calls the first main() *)
(* with the first copy's functions bound, then the second copy's def       *)
(* statements rebind every name, then the second guard calls main() again. *)
(* Imported (usoconverter.py), only the second copy's functions survive.   *)
(*                                                                         *)
(* pandas and json are libraries, not code of the repository; the          *)
(* operators below model the library calls the source makes, by what the   *)
(* calls do to a table of typed columns.                                   *)
(***************************************************************************)
EXTENDS Naturals, Integers, Sequences, FiniteSets, TLC

VARIABLES
  mode,        \* "script": python converter.py ...   "import": python usoconverter.py
  src,         \* what the input path holds: "missing" | "unparsable" | "workbook" | "clobbered"
  book,        \* the sheet the loader would return (the table in the file)
  argOut,      \* args.output / output_file: "" (absent) | "out" (another path) | "in" (the input path)
  argCompact,  \* args.compact
  copy,        \* which copy of the definitions is bound: 1 (lines 14-138) or 2 (lines 153-288)
  pc,          \* position: "start" | "read" | "clean" | "json" | "report" | "exit" ("idle" in the harness)
  exitCode,    \* -1 while running, then the process's exit status
  df,          \* the DataFrame held by main's local df
  records,     \* the last value of convert_to_json's local records
  json_str,    \* the last JSON text produced (a token sequence), <<>> before
  reads,       \* number of pd.read_excel calls on the input path
  cleans,      \* number of clean_dataframe calls
  dumps,       \* number of convert_to_json calls
  writes,      \* number of times the output file was opened for writing and written
  printed,     \* number of times the JSON text was printed to standard output
  outFile,     \* content of the output path: <<>> while never written, else the JSON text
  nmHist       \* header-sanitation harness: a name and its images under repeated sanitation

vars == <<mode, src, book, argOut, argCompact, copy, pc, exitCode, df, records,
          json_str, reads, cleans, dumps, writes, printed, outFile, nmHist>>

(***************************************************************************)
(* Bounds of the model.                                                    *)
(***************************************************************************)
MaxCells == 4      \* rows * columns of an input table
MaxNameLen == 3    \* length of a column name in the sanitation harness
MaxPasses == 2     \* how often the harness re-applies the sanitation

(***************************************************************************)
(* Characters.  A name is a sequence of one-character strings.             *)
(***************************************************************************)
Letters ==
  {"a","b","c","d","e","f","g","h","i","j","k","l","m","n","o","p","q","r",
   "s","t","u","v","w","x","y","z",
   "A","B","C","D","E","F","G","H","I","J","K","L","M","N","O","P","Q","R",
   "S","T","U","V","W","X","Y","Z"}

Digits == {"0","1","2","3","4","5","6","7","8","9"}

\* the complement of the character class in the pattern '[^a-zA-Z0-9_]'
AllowedChars == Letters \cup Digits \cup {"_"}

IsAllowedChar(c) == c \in AllowedChars

\* .str.replace(' ', '_') on one string
ReplaceSpaces(s) == [i \in DOMAIN s |-> IF s[i] = " " THEN "_" ELSE s[i]]

\* .str.replace('[^a-zA-Z0-9_]', '', regex=True) on one string
RemoveDisallowed(s) == SelectSeq(s, IsAllowedChar)

\* plausible slip: the character class is stripped before the spaces are
\* replaced, so the spaces are stripped too
CleanNameStripFirst(s) == ReplaceSpaces(RemoveDisallowed(s))

\* plausible slip: re.sub with count=1, only the first offending character goes
CleanNameFirstOnly(s) ==
  LET t == ReplaceSpaces(s)
      bad == {i \in DOMAIN t : ~IsAllowedChar(t[i])}
  IN  IF bad = {} THEN t
      ELSE LET k == CHOOSE i \in bad : \A j \in bad : i <= j
           IN  SubSeq(t, 1, k - 1) \o SubSeq(t, k + 1, Len(t))

\* the two chained replacements applied to one text column name
CleanName(s) == RemoveDisallowed(ReplaceSpaces(s))

(***************************************************************************)
(* Column labels.  The loader takes labels verbatim from the header row:   *)
(* a text cell gives a str label, a numeric cell an int label.  The .str   *)
(* methods turn a non-str element of an object Index into NaN.             *)
(***************************************************************************)
TextHdr(s) == [kind |-> "text", s |-> s]
IntHdr(s) == [kind |-> "int", s |-> s]
NaNHdr == [kind |-> "nan", s |-> <<>>]

\* lib.infer_dtype(values, skipna=True) of an Index, as StringMethods._validate sees it
InferredIndexType(hdrs) ==
  LET kinds == {hdrs[i].kind : i \in DOMAIN hdrs} \ {"nan"}
  IN  IF kinds = {} THEN "empty"
      ELSE IF kinds = {"text"} THEN "string"
      ELSE IF kinds = {"int"} THEN "integer"
      ELSE "mixed-integer"

\* df.columns.str: AttributeError("Can only use .str accessor with string values")
StrAccessorOK(hdrs) ==
  InferredIndexType(hdrs) \in {"string", "empty", "bytes", "mixed", "mixed-integer"}

\* one element of the Index through both replacements
SanitizeLabel(h) == IF h.kind = "text" THEN TextHdr(CleanName(h.s)) ELSE NaNHdr

\* df.columns.str.replace(' ', '_').str.replace('[^a-zA-Z0-9_]', '', regex=True)
SanitizeColumns(hdrs) ==
  IF StrAccessorOK(hdrs)
  THEN [ok |-> TRUE, hdrs |-> [i \in DOMAIN hdrs |-> SanitizeLabel(hdrs[i])]]
  ELSE [ok |-> FALSE, hdrs |-> hdrs]

(***************************************************************************)
(* Cells, columns, tables.  A cell is a tagged value; a column carries the *)
(* dtype pandas gave it; a table is column-major with its row count.       *)
(***************************************************************************)
Cell(k, v) == [k |-> k, v |-> v]

EmptyCell == Cell("empty", "")       \* NaN / NaT / None
BlankText == Cell("text", "")        \* the fill value ""

\* what a sheet's data cells can hold
InputCells ==
  {Cell("text", "x"), Cell("num", "1"), Cell("bool", "True"),
   Cell("date", "2025-06-18 00:00:00"), EmptyCell}

DatetimeDtypes == {"datetime", "datetimetz"}

\* the dtype read_excel infers for a column from its cells
InferDtype(cells) ==
  LET kinds == {cells[i].k : i \in DOMAIN cells}
  IN  IF Len(cells) = 0 THEN "object"
      ELSE IF kinds = {"empty"} THEN "number"
      ELSE IF kinds \subseteq {"num", "empty"} THEN "number"
      ELSE IF kinds \subseteq {"date", "empty"} THEN "datetime"
      ELSE IF kinds = {"bool"} THEN "bool"
      ELSE "object"

Column(h, cells) == [hdr |-> h, dtype |-> InferDtype(cells), cells |-> cells]

EmptyTable == [nrows |-> 0, cols |-> <<>>]

Hdrs(t) == [j \in DOMAIN t.cols |-> t.cols[j].hdr]

\* header cells of the modelled sheets: two texts that sanitize to the same
\* name, and a numeric header
HdrPool ==
  {TextHdr(<<"F", " ", "(">>), TextHdr(<<"F", "_">>), IntHdr(<<"7">>)}

Shapes ==
  {sh \in (0..MaxCells) \X (0..MaxCells) :
     /\ sh[1] * sh[2] <= MaxCells
     /\ (sh[2] = 0 => sh[1] = 0)
     /\ sh[2] <= Cardinality(HdrPool)}

\* read_excel mangles repeated header texts, so the labels it returns are distinct
DistinctHdrs(c) ==
  {h \in [1..c -> HdrPool] : \A i, j \in 1..c : i # j => h[i] # h[j]}

TablesOfShape(r, c) ==
  {[nrows |-> r, cols |-> [j \in 1..c |-> Column(h[j], cs[j])]] :
     h \in DistinctHdrs(c), cs \in [1..c -> [1..r -> InputCells]]}

\* the tables pd.read_excel can return, within the bounds
Tables == UNION {TablesOfShape(sh[1], sh[2]) : sh \in Shapes}

(***************************************************************************)
(* pandas calls made by clean_dataframe.                                   *)
(***************************************************************************)
HasNa(col) == \E i \in DOMAIN col.cells : col.cells[i].k = "empty"

FillCells(cells) ==
  [i \in DOMAIN cells |-> IF cells[i].k = "empty" THEN BlankText ELSE cells[i]]

\* df.fillna("") on one column.  A column without missing cells keeps its
\* dtype.  A numeric or object column with missing cells becomes object with
\* "" in them.  For a datetime64 column the result depends on the pandas
\* build: either "" cannot be held and the column is upcast to object
\* (Timestamps and ""), or "" is validated as a datetime string, parses to
\* NaT, and the column is left as it was (emptyIsNaT).
FillNaColumn(col, emptyIsNaT) ==
  IF ~HasNa(col) THEN col
  ELSE IF col.dtype \in DatetimeDtypes /\ emptyIsNaT THEN col
  ELSE [col EXCEPT !.cells = FillCells(col.cells), !.dtype = "object"]

\* df = df.fillna("")
FillNa(t, emptyIsNaT) ==
  [t EXCEPT !.cols = [j \in DOMAIN t.cols |-> FillNaColumn(t.cols[j], emptyIsNaT)]]

\* str(value) of one cell, as Series.astype(str) applies it
StrOfCell(c) ==
  CASE c.k = "text" -> c
    [] c.k = "num" -> Cell("text", c.v)
    [] c.k = "bool" -> Cell("text", c.v)
    [] c.k = "date" -> Cell("text", c.v)
    [] c.k = "empty" -> Cell("text", "NaT")

\* Series.astype(str)
AsTypeStr(col) ==
  [col EXCEPT !.cells = [i \in DOMAIN col.cells |-> StrOfCell(col.cells[i])],
              !.dtype = "object"]

\* labels of df.select_dtypes(include=["datetime", "datetimetz"])
SelectDatetimeLabels(t) ==
  {t.cols[j].hdr : j \in {i \in DOMAIN t.cols : t.cols[i].dtype \in DatetimeDtypes}}

\* for col in df.select_dtypes(...): df[col] = df[col].astype(str)
\* df[col] selects by label: every column carrying the label of a datetime
\* column is read, converted and written back.
ConvertDatetimeColumns(t) ==
  LET labels == SelectDatetimeLabels(t)
  IN  [t EXCEPT !.cols = [j \in DOMAIN t.cols |->
         IF t.cols[j].hdr \in labels THEN AsTypeStr(t.cols[j]) ELSE t.cols[j]]]

\* df.columns = <new labels>
SetColumns(t, hdrs) ==
  [t EXCEPT !.cols = [j \in DOMAIN t.cols |-> [t.cols[j] EXCEPT !.hdr = hdrs[j]]]]

\* clean_dataframe, first copy: fillna, datetime conversion, then the rename
clean_dataframe_first(t, emptyIsNaT) ==
  LET filled == FillNa(t, emptyIsNaT)
      conv == ConvertDatetimeColumns(filled)
      san == SanitizeColumns(Hdrs(conv))
  IN  IF san.ok THEN [ok |-> TRUE, df |-> SetColumns(conv, san.hdrs)]
      ELSE [ok |-> FALSE, df |-> t]

\* clean_dataframe, second copy (the binding that survives): fillna, the
\* rename, then the datetime conversion
clean_dataframe(t, emptyIsNaT) ==
  LET filled == FillNa(t, emptyIsNaT)
      san == SanitizeColumns(Hdrs(filled))
  IN  IF san.ok
      THEN [ok |-> TRUE, df |-> ConvertDatetimeColumns(SetColumns(filled, san.hdrs))]
      ELSE [ok |-> FALSE, df |-> t]

\* the clean_dataframe bound while copy c of the definitions is in force
CleanOf(c, t, emptyIsNaT) ==
  IF c = 1 THEN clean_dataframe_first(t, emptyIsNaT) ELSE clean_dataframe(t, emptyIsNaT)

(***************************************************************************)
(* The serializer: df.to_dict('records') and json.dumps.                   *)
(***************************************************************************)
\* dict(zip(columns, row)): a key keeps the place of its first column and
\* takes the value of its last one
RowRecord(t, r) ==
  LET n == Len(t.cols)
      IsFirst(j) == \A i \in 1..(j - 1) : t.cols[i].hdr # t.cols[j].hdr
      LastOf(j) == CHOOSE m \in j..n :
                     /\ t.cols[m].hdr = t.cols[j].hdr
                     /\ \A i \in (m + 1)..n : t.cols[i].hdr # t.cols[j].hdr
      firsts == SelectSeq([j \in 1..n |-> j], IsFirst)
  IN  [p \in DOMAIN firsts |->
         [key |-> t.cols[firsts[p]].hdr, val |-> t.cols[LastOf(firsts[p])].cells[r]]]

\* plausible slip: the records come out last row first
ToDictRecordsReversed(t) == [r \in 1..t.nrows |-> RowRecord(t, t.nrows + 1 - r)]

\* df.to_dict('records')
ToDictRecords(t) == [r \in 1..t.nrows |-> RowRecord(t, r)]

\* the values json.dumps can encode: str, int/float, bool.  A Timestamp, a
\* datetime or NaT raises TypeError.
Serializable(c) == c.k \in {"text", "num", "bool"}

RecordsSerializable(recs) ==
  \A r \in DOMAIN recs : \A p \in DOMAIN recs[r] : Serializable(recs[r][p].val)

\* the text of a key in the JSON output: a str key as it is, an int key as
\* its digits, a float NaN key as NaN
JsonKey(h) == IF h.kind = "nan" THEN <<"N", "a", "N">> ELSE h.s

Tok(t, name, v) == [t |-> t, name |-> name, v |-> v]
Punct(t) == Tok(t, <<>>, "")
Space == Punct("sp")
Newline == Punct("nl")
Indent(n) == [i \in 1..(2 * n) |-> Space]

IsWhitespace(tok) == tok.t \in {"sp", "nl"}

JsonKind(c) == CASE c.k = "text" -> "str" [] c.k = "num" -> "num" [] c.k = "bool" -> "bool"

ValueTok(c) == Tok(JsonKind(c), <<>>, c.v)

RECURSIVE Join(_, _)
\* sep.join(parts) on token sequences
Join(parts, sep) ==
  IF Len(parts) = 0 THEN <<>>
  ELSE IF Len(parts) = 1 THEN parts[1]
  ELSE parts[1] \o sep \o Join(Tail(parts), sep)

PairToks(pair) == <<Tok("key", JsonKey(pair.key), ""), Punct(":"), Space, ValueTok(pair.val)>>

\* one dict, at nesting depth 1 of the array
ObjectToks(rec, pretty) ==
  LET pairs == [p \in DOMAIN rec |-> PairToks(rec[p])]
  IN  IF Len(rec) = 0 THEN <<Punct("{"), Punct("}")>>
      ELSE IF pretty
      THEN <<Punct("{"), Newline>>
           \o Join([p \in DOMAIN pairs |-> Indent(2) \o pairs[p]], <<Punct(","), Newline>>)
           \o <<Newline>> \o Indent(1) \o <<Punct("}")>>
      ELSE <<Punct("{")>> \o Join(pairs, <<Punct(","), Space>>) \o <<Punct("}")>>

\* json.dumps(records, indent=2, ensure_ascii=False) when pretty, else
\* json.dumps(records, ensure_ascii=False)
Dumps(recs, pretty) ==
  LET objs == [r \in DOMAIN recs |-> ObjectToks(recs[r], pretty)]
  IN  IF Len(recs) = 0 THEN <<Punct("["), Punct("]")>>
      ELSE IF pretty
      THEN <<Punct("["), Newline>>
           \o Join([r \in DOMAIN objs |-> Indent(1) \o objs[r]], <<Punct(","), Newline>>)
           \o <<Newline, Punct("]")>>
      ELSE <<Punct("[")>> \o Join(objs, <<Punct(","), Space>>) \o <<Punct("]")>>

(***************************************************************************)
(* json.loads, the reader the round trip is judged with.                   *)
(***************************************************************************)
CellOfTok(tok) ==
  CASE tok.t = "str" -> Cell("text", tok.v)
    [] tok.t = "num" -> Cell("num", tok.v)
    [] tok.t = "bool" -> Cell("bool", tok.v)

\* position of the first token of type ty in s, 0 when there is none
FirstPos(s, ty) ==
  IF \E i \in DOMAIN s : s[i].t = ty
  THEN CHOOSE i \in DOMAIN s : s[i].t = ty /\ \A j \in 1..(i - 1) : s[j].t # ty
  ELSE 0

SkipComma(s) == IF Len(s) > 0 /\ s[1].t = "," THEN Tail(s) ELSE s

RECURSIVE ParsePairs(_)
\* key : value {, key : value}
ParsePairs(s) ==
  IF Len(s) < 3 THEN <<>>
  ELSE <<[key |-> s[1].name, val |-> CellOfTok(s[3])]>>
       \o ParsePairs(SkipComma(SubSeq(s, 4, Len(s))))

RECURSIVE ParseObjects(_)
\* { pairs } {, { pairs }}
ParseObjects(s) ==
  IF Len(s) = 0 \/ s[1].t # "{" THEN <<>>
  ELSE LET q == FirstPos(s, "}")
       IN  <<ParsePairs(SubSeq(s, 2, q - 1))>>
           \o ParseObjects(SkipComma(SubSeq(s, q + 1, Len(s))))

\* json.loads(text): the list of objects, each a list of key/value pairs
Loads(text) ==
  LET s == SelectSeq(text, LAMBDA tok : ~IsWhitespace(tok))
  IN  ParseObjects(SubSeq(s, 2, Len(s) - 1))

\* the keys of a parsed object, and the value a key maps to (the last wins)
KeysOf(obj) == {obj[p].key : p \in DOMAIN obj}
ValueAt(obj, k) ==
  obj[CHOOSE p \in DOMAIN obj : obj[p].key = k /\ \A q \in DOMAIN obj : obj[q].key = k => q <= p].val

(***************************************************************************)
(* The process.                                                            *)
(***************************************************************************)
\* plausible slip: only the missing file is treated as a failure
LoadFailsOnlyMissing(s) == s = "missing"

\* pd.read_excel raises for a path that holds no readable workbook: a corrupt
\* file, another format (also the JSON a first pass wrote over the input),
\* or a sheet name the workbook does not have
LoadFails(s) == s # "workbook"

Init ==
  /\ mode \in {"script", "import"}
  /\ src \in {"missing", "unparsable", "workbook"}
  /\ book \in (IF src = "workbook" THEN Tables ELSE {EmptyTable})
  /\ argOut \in (IF mode = "script" THEN {"", "out", "in"} ELSE {"out"})
  /\ argCompact \in (IF mode = "script" THEN BOOLEAN ELSE {FALSE})
  /\ copy = (IF mode = "script" THEN 1 ELSE 2)
  /\ pc = (IF mode = "script" THEN "start" ELSE "read")
  /\ exitCode = -1
  /\ df = EmptyTable
  /\ records = <<>>
  /\ json_str = <<>>
  /\ reads = 0
  /\ cleans = 0
  /\ dumps = 0
  /\ writes = 0
  /\ printed = 0
  /\ outFile = <<>>
  /\ nmHist = <<>>

\* sys.exit(code), or an uncaught exception (status 1)
Exit(code) == pc' = "exit" /\ exitCode' = code

\* main() up to the call of read_excel_file: Path(args.excel_file).exists()
MainStart ==
  /\ pc = "start"
  /\ IF src = "missing" THEN Exit(1) ELSE pc' = "read" /\ exitCode' = exitCode
  /\ UNCHANGED <<mode, src, book, argOut, argCompact, copy, df, records, json_str,
                 reads, cleans, dumps, writes, printed, outFile, nmHist>>

\* read_excel_file(file_path, sheet_name): both branches of `if sheet_name`
\* call pd.read_excel; FileNotFoundError and every other Exception end in
\* sys.exit(1).  (--preview only prints.)
read_excel_file ==
  /\ pc = "read"
  /\ reads' = reads + 1
  /\ IF LoadFails(src)
     THEN Exit(1) /\ df' = df
     ELSE df' = book /\ pc' = "clean" /\ exitCode' = exitCode
  /\ UNCHANGED <<mode, src, book, argOut, argCompact, copy, records, json_str,
                 cleans, dumps, writes, printed, outFile, nmHist>>

\* df = clean_dataframe(df); an exception raised inside is caught nowhere
CleanStep ==
  /\ pc = "clean"
  /\ cleans' = cleans + 1
  /\ \E emptyIsNaT \in BOOLEAN :
       LET res == CleanOf(copy, df, emptyIsNaT)
       IN  IF res.ok
           THEN df' = res.df /\ pc' = "json" /\ exitCode' = exitCode
           ELSE Exit(1) /\ df' = df
  /\ UNCHANGED <<mode, src, book, argOut, argCompact, copy, records, json_str,
                 reads, dumps, writes, printed, outFile, nmHist>>

\* convert_to_json(df, output_file, pretty): to_dict, json.dumps (TypeError
\* on a value it cannot encode, before any file is opened), then the write
\* when output_file is given
convert_to_json ==
  /\ pc = "json"
  /\ dumps' = dumps + 1
  /\ records' = ToDictRecords(df)
  /\ IF ~RecordsSerializable(records')
     THEN /\ Exit(1)
          /\ UNCHANGED <<json_str, writes, outFile, src>>
     ELSE /\ json_str' = Dumps(records', ~argCompact)
          /\ pc' = "report"
          /\ exitCode' = exitCode
          /\ IF argOut # ""
             THEN /\ writes' = writes + 1
                  /\ outFile' = json_str'
                  /\ src' = (IF argOut = "in" THEN "clobbered" ELSE src)
             ELSE UNCHANGED <<writes, outFile, src>>
  /\ UNCHANGED <<mode, book, argOut, argCompact, copy, df, reads, cleans, printed, nmHist>>

\* the rest of main(): print(json_str) when no output file was named, the
\* success lines, and the return.  In the script the file goes on after the
\* first guard: the second copy's defs are bound and the second guard calls
\* main() again.
Report ==
  /\ pc = "report"
  /\ printed' = (IF argOut = "" THEN printed + 1 ELSE printed)
  /\ IF mode = "script" /\ copy = 1
     THEN copy' = 2 /\ pc' = "start" /\ exitCode' = exitCode
     ELSE copy' = copy /\ Exit(0)
  /\ UNCHANGED <<mode, src, book, argOut, argCompact, df, records, json_str,
                 reads, cleans, dumps, writes, outFile, nmHist>>

Next == MainStart \/ read_excel_file \/ CleanStep \/ convert_to_json \/ Report

Spec == Init /\ [][Next]_vars

(***************************************************************************)
(* Header sanitation on its own: lines 196-197 (and 59-60) applied to a    *)
(* one-column frame whose label is any text over NameAlphabet, and applied *)
(* again to the result, as a second clean_dataframe call would.            *)
(***************************************************************************)
NameAlphabet == {"A", "7", "_", " ", "-", "ó"}

Names == UNION {[1..n -> NameAlphabet] : n \in 0..MaxNameLen}

InitNames ==
  /\ nmHist \in {<<n>> : n \in Names}
  /\ mode = "import"
  /\ src = "missing"
  /\ book = EmptyTable
  /\ argOut = ""
  /\ argCompact = FALSE
  /\ copy = 2
  /\ pc = "idle"
  /\ exitCode = -1
  /\ df = EmptyTable
  /\ records = <<>>
  /\ json_str = <<>>
  /\ reads = 0
  /\ cleans = 0
  /\ dumps = 0
  /\ writes = 0
  /\ printed = 0
  /\ outFile = <<>>

\* df.columns = df.columns.str.replace(' ', '_').str.replace(...), on the
\* frame whose single label is the last name of nmHist
SanitizeHeader ==
  /\ pc = "idle"
  /\ Len(nmHist) <= MaxPasses
  /\ LET san == SanitizeColumns(<<TextHdr(nmHist[Len(nmHist)])>>)
     IN  san.ok /\ nmHist' = Append(nmHist, san.hdrs[1].s)
  /\ UNCHANGED <<mode, src, book, argOut, argCompact, copy, pc, exitCode, df, records,
                 json_str, reads, cleans, dumps, writes, printed, outFile>>

NextNames == SanitizeHeader

SpecNames == InitNames /\ [][NextNames]_vars

(***************************************************************************)
(* Properties.                                                             *)
(***************************************************************************)
\* df holds the value clean_dataframe returned for the loaded sheet
Cleaned == pc \in {"json", "report"}

ScalarKinds == {"text", "num", "bool"}

\* C1 (empty-fill totality): every value of every record that clean_dataframe
\* followed by convert_to_json produces is a string, a number or a boolean.
C1_RecordValuesAreScalars ==
  \A r \in DOMAIN records : \A p \in DOMAIN records[r] :
    records[r][p].val.k \in ScalarKinds

\* C2 (date canonicalization): after clean_dataframe, every cell of a column
\* whose loader-assigned dtype is datetime holds the string rendering of its
\* date, and "" where the cell was empty.
C2_DateColumnsRendered ==
  Cleaned =>
    \A j \in DOMAIN book.cols :
      book.cols[j].dtype \in DatetimeDtypes =>
        \A i \in 1..book.nrows :
          df.cols[j].cells[i] =
            (IF book.cols[j].cells[i].k = "empty" THEN BlankText
             ELSE Cell("text", book.cols[j].cells[i].v))

RECURSIVE ExpectedName(_)
\* the name the specification describes, character by character: a space
\* gives an underscore, an ASCII letter, digit or underscore stays, anything
\* else is dropped
ExpectedName(s) ==
  IF Len(s) = 0 THEN <<>>
  ELSE (IF Head(s) = " " THEN <<"_">>
        ELSE IF Head(s) \in AllowedChars THEN <<Head(s)>>
        ELSE <<>>) \o ExpectedName(Tail(s))

\* the label clean_dataframe's rename gives a one-column frame labelled s
SanitizedText(s) == SanitizeColumns(<<TextHdr(s)>>).hdrs[1].s

\* C3 (header sanitation): the name after the rename is the original with
\* every space replaced by "_" and every other character outside
\* [A-Za-z0-9_] removed; it holds only characters of [A-Za-z0-9_]; and
\* "A B-C" gives "A_BC", "Fecha (ISO)" gives "Fecha_ISO", "Código" gives "Cdigo".
C3_HeaderSanitation ==
  /\ Len(nmHist) >= 2 =>
       /\ nmHist[2] = ExpectedName(nmHist[1])
       /\ \A i \in DOMAIN nmHist[2] : nmHist[2][i] \in AllowedChars
  /\ SanitizedText(<<"A", " ", "B", "-", "C">>) = <<"A", "_", "B", "C">>
  /\ SanitizedText(<<"F", "e", "c", "h", "a", " ", "(", "I", "S", "O", ")">>)
       = <<"F", "e", "c", "h", "a", "_", "I", "S", "O">>
  /\ SanitizedText(<<"C", "ó", "d", "i", "g", "o">>) = <<"C", "d", "i", "g", "o">>

C3_Witness ==
  /\ Len(nmHist) >= 2
  /\ nmHist[1] = <<"A", " ", "-">>
  /\ nmHist[2] = <<"A", "_">>

\* the column that supplies the value of its label in a record: the last one
IsLastOfLabel(t, j) == \A i \in (j + 1)..Len(t.cols) : t.cols[i].hdr # t.cols[j].hdr

\* C4 (round trip): the JSON convert_to_json produced, pretty or compact,
\* parses to an array with one object per row of the table, in row order,
\* each with exactly the cleaned column names as keys.
C4_RoundTrip ==
  pc = "report" =>
    LET parsed == Loads(json_str)
    IN  /\ Len(parsed) = df.nrows
        /\ \A r \in 1..df.nrows :
             /\ KeysOf(parsed[r]) = {JsonKey(df.cols[j].hdr) : j \in DOMAIN df.cols}
             /\ \A j \in DOMAIN df.cols :
                  IsLastOfLabel(df, j) =>
                    ValueAt(parsed[r], JsonKey(df.cols[j].hdr)) = df.cols[j].cells[r]
        /\ (argOut # "" => outFile = json_str)

C4_Witness ==
  /\ pc = "report"
  /\ argCompact
  /\ df.nrows = 1
  /\ Len(df.cols) = 2
  /\ df.cols[1].hdr = df.cols[2].hdr
  /\ book.cols[1].hdr # book.cols[2].hdr

\* C5 (fatal load failure): when the input path is missing or holds nothing
\* pd.read_excel can parse, neither clean_dataframe nor convert_to_json runs,
\* no JSON is printed, no output file is written, the process keeps running
\* until it exits, and it exits with a non-zero status.
C5_FatalLoadFailure ==
  src \in {"missing", "unparsable"} =>
    /\ cleans = 0 /\ dumps = 0 /\ printed = 0 /\ writes = 0
    /\ outFile = <<>> /\ json_str = <<>>
    /\ pc \in {"start", "read", "exit"}
    /\ (pc = "exit" => exitCode = 1)
    /\ (pc # "exit" => ENABLED Next)

C5_Witness ==
  /\ src = "unparsable"
  /\ argOut = "out"
  /\ mode = "script"
  /\ reads = 1
  /\ pc = "exit"
  /\ exitCode = 1

\* C6 (normalizer totality): clean_dataframe returns a table for every table
\* the loader hands it, so no run ends inside clean_dataframe (a run that
\* ended there has called clean_dataframe once more than convert_to_json).
C6_CleanNeverRaises ==
  /\ pc = "clean" => \A emptyIsNaT \in BOOLEAN : CleanOf(copy, df, emptyIsNaT).ok
  /\ ~(pc = "exit" /\ cleans = dumps + 1)

\* C7 (order independence): the copy of clean_dataframe that renames before
\* converting the datetime columns and the copy that converts before
\* renaming return the same table for every loaded table.
C7_VariantsAgree ==
  pc = "clean" =>
    \A emptyIsNaT \in BOOLEAN :
      clean_dataframe_first(df, emptyIsNaT) = clean_dataframe(df, emptyIsNaT)

\* C8 (single pass): one run of converter.py as a script reads the input
\* once, normalizes once, serializes once, writes the output file at most
\* once and never without -o, prints the JSON at most once; a run that ends
\* with status 0 has read exactly once and, with -o, written exactly once.
C8_SinglePass ==
  mode = "script" =>
    /\ reads <= 1 /\ cleans <= 1 /\ dumps <= 1 /\ writes <= 1 /\ printed <= 1
    /\ (argOut = "" => writes = 0)
    /\ (pc = "exit" /\ exitCode = 0 => reads = 1 /\ (argOut # "" => writes = 1))

\* C9 (idempotence): sanitizing an already sanitized name returns that name.
C9_SanitationIdempotent ==
  \A i \in 2..(Len(nmHist) - 1) : nmHist[i + 1] = nmHist[i]

C9_Witness ==
  /\ Len(nmHist) = 3
  /\ nmHist[1] = <<" ", "-", "ó">>
  /\ nmHist[2] = <<"_">>
  /\ nmHist[3] = <<"_">>

\* C10 (normalizer frame): clean_dataframe keeps the number and order of rows
\* and columns; an empty cell of a non-date column becomes "", a cell of a
\* date column becomes a string, and every non-empty cell of a text, number
\* or boolean column keeps its value.
C10_NormalizerFrame ==
  Cleaned =>
    /\ df.nrows = book.nrows
    /\ Len(df.cols) = Len(book.cols)
    /\ \A j \in DOMAIN book.cols :
         /\ df.cols[j].hdr = SanitizeLabel(book.cols[j].hdr)
         /\ Len(df.cols[j].cells) = book.nrows
         /\ \A i \in 1..book.nrows :
              LET old == book.cols[j].cells[i]
                  new == df.cols[j].cells[i]
              IN  IF book.cols[j].dtype \in DatetimeDtypes
                  THEN old.k = "empty" \/ new.k \in {"text", "date"}
                  ELSE IF old.k = "empty" THEN new = BlankText
                  ELSE new = old

=============================================================================
